---- MODULE Spec2Model ----
(***************************************************************************)
(* A model of the Euronext ESG extraction pipeline:                        *)
(*   src/src/euronext_scraper.py   EuronextESGScraper (Transport, Table    *)
(*                                 Extractor, Entity Aggregator, Dataset   *)
(*                                 Builder)                                *)
(*   src/json_to_csv_converter.py  ESGJsonToCsvConverter (Flattener)       *)
(*                                                                         *)
(* Python str values are TLA+ strings; a Python dict is a function whose   *)
(* DOMAIN is its key set; a Python list is a sequence.  None is the value   *)
(* None where a dict, list or element is expected and NoneStr where a str  *)
(* is expected.  A parsed HTML document (the BeautifulSoup tree) is a      *)
(* record  [blank, tables, footer]  whose cells carry their raw text.      *)
(***************************************************************************)
EXTENDS Integers, Sequences, FiniteSets, TLC

None == [none |-> TRUE]
NoneStr == "<None>"

(***************************************************************************)
(* Python str operations.  Python evaluates an argument once, before the   *)
(* call: Call1..Call4 bind the arguments to their values in the same way.  *)
(***************************************************************************)
Call1(F(_), a) == CHOOSE r \in {F(x) : x \in {a}} : TRUE
Call2(F(_, _), a, b) == CHOOSE r \in {F(x, y) : x \in {a}, y \in {b}} : TRUE
Call3(F(_, _, _), a, b, c) ==
    CHOOSE r \in {F(x, y, z) : x \in {a}, y \in {b}, z \in {c}} : TRUE
Call4(F(_, _, _, _), a, b, c, d) ==
    CHOOSE r \in {F(x, y, z, w) : x \in {a}, y \in {b}, z \in {c}, w \in {d}} :
        TRUE

Whitespace == {" ", "\t", "\n"}

CharAt(s, i) == SubSeq(s, i, i)

Min(S) == CHOOSE m \in S : \A n \in S : m <= n
Max(S) == CHOOSE m \in S : \A n \in S : n <= m

\* Python: s.find(sub, k - 1) + 1: the least position >= k where sub starts
\* in s, else 0
FindFrom(s, sub, k) ==
    Call3(LAMBDA t, u, j :
              LET hits == {i \in j..(Len(t) - Len(u) + 1) :
                              SubSeq(t, i, i + Len(u) - 1) = u}
              IN  IF hits = {} THEN 0 ELSE Min(hits),
          s, sub, k)

\* Python: sub in s
Contains(s, sub) == FindFrom(s, sub, 1) # 0

RECURSIVE SplitFrom(_, _, _)
\* Python: s.split(sep) for the text of s from position start on
SplitFrom(s, sep, start) ==
    Call3(LAMBDA t, u, j :
              IF FindFrom(t, u, j) = 0 THEN <<SubSeq(t, j, Len(t))>>
              ELSE <<SubSeq(t, j, FindFrom(t, u, j) - 1)>>
                   \o SplitFrom(t, u, FindFrom(t, u, j) + Len(u)),
          s, sep, start)

\* Python: s.split(sep), sep non-empty
Split(s, sep) == SplitFrom(s, sep, 1)

\* Python: s.rstrip(chars), chars given as a set of characters
RStripChars(s, chars) ==
    Call2(LAMBDA t, cs :
              LET keep == {i \in 1..Len(t) : CharAt(t, i) \notin cs}
              IN  IF keep = {} THEN "" ELSE SubSeq(t, 1, Max(keep)),
          s, chars)

\* Python: s.lstrip(chars)
LStripChars(s, chars) ==
    Call2(LAMBDA t, cs :
              LET keep == {i \in 1..Len(t) : CharAt(t, i) \notin cs}
              IN  IF keep = {} THEN "" ELSE SubSeq(t, Min(keep), Len(t)),
          s, chars)

\* Python: s.strip()
Strip(s) == LStripChars(RStripChars(s, Whitespace), Whitespace)

RECURSIVE ReplaceRange(_, _, _, _, _)
\* Python: s[lo-1:hi].replace(old, new), old a single character
ReplaceRange(s, lo, hi, old, new) ==
    IF lo > hi THEN ""
    ELSE IF lo = hi
    THEN (IF CharAt(s, lo) = old THEN new ELSE CharAt(s, lo))
    ELSE ReplaceRange(s, lo, (lo + hi) \div 2, old, new)
         \o ReplaceRange(s, (lo + hi) \div 2 + 1, hi, old, new)

\* Python: s.replace(old, new), old a single character
Replace(s, old, new) ==
    Call3(LAMBDA t, o, n : ReplaceRange(t, 1, Len(t), o, n), s, old, new)

RECURSIVE JoinSpaceFrom(_, _)
\* Python: ' '.join(xs[i-1:])
JoinSpaceFrom(xs, i) ==
    Call2(LAMBDA ys, j :
              IF j > Len(ys) THEN ""
              ELSE IF j = Len(ys) THEN ys[j]
              ELSE ys[j] \o " " \o JoinSpaceFrom(ys, j + 1),
          xs, i)

\* Python: ' '.join(xs)
JoinSpace(xs) == JoinSpaceFrom(xs, 1)

\* Python: xs[:n]
Take(xs, n) == SubSeq(xs, 1, IF n < Len(xs) THEN n ELSE Len(xs))

\* Python: cell.get_text(strip=True) of an element holding one text node
get_text(raw) == Strip(raw)

(***************************************************************************)
(* Table Extractor: extract_metadata                                       *)
(***************************************************************************)
\* lines 258-261: source_part holds 'Last Update:'
split_source_date(metadata, source_date_parts) ==
    LET withSource == metadata @@
            [source |-> RStripChars(Strip(source_date_parts[1]), {" ", "-"})]
    IN  IF Len(source_date_parts) > 1
        THEN withSource @@ [last_update |-> Strip(source_date_parts[2])]
        ELSE withSource

\* lines 255-263: the text after the first 'Source:'
split_source_part(metadata, source_part) ==
    IF Contains(source_part, "Last Update:")
    THEN Call2(split_source_date, metadata, Split(source_part, "Last Update:"))
    ELSE metadata @@ [source |-> source_part]

\* lines 253-263
split_source(metadata, parts) ==
    IF Len(parts) > 1
    THEN Call2(split_source_part, metadata, Strip(parts[2]))
    ELSE metadata

\* lines 250-265: the metadata dict built from the paragraph's text
metadata_of_text(source_text) ==
    IF Contains(source_text, "Source:")
    THEN Call2(split_source, [raw_source |-> source_text],
               Split(source_text, "Source:"))
    ELSE [raw_source |-> source_text]

\* lines 238-270; soup.footer is the first div.card-footer (or None), its p
\* field the footer's first paragraph (or None), an element [text |-> raw]
extract_metadata(soup) ==
    IF soup.footer = None THEN None
    ELSE IF soup.footer.p = None THEN None
    ELSE Call1(metadata_of_text, get_text(soup.footer.p.text))

(***************************************************************************)
(* Table Extractor: parse_html_table                                       *)
(***************************************************************************)
EmptyDict == [k \in {} |-> None]

\* Python: d[k] = v
DictSet(d, k, v) == (k :> v) @@ d

\* lines 161-170: the class test of one table; cls is t.get('class'), a list
\* of class tokens (empty when the attribute is absent or empty)
class_matches(cls) ==
    /\ Len(cls) > 0
    /\ Contains(JoinSpace(cls), "table")

\* lines 160-174: index of the selected table among the non-empty tables
select_table(tables) ==
    LET hits == {i \in 1..Len(tables) : class_matches(tables[i].class)}
    IN  IF hits # {} THEN CHOOSE i \in hits : \A j \in hits : i <= j
        ELSE 1

\* lines 184-189
header_texts(header_row) ==
    LET header_cells == IF Len(header_row.th) > 0 THEN header_row.th
                        ELSE header_row.td
    IN  [i \in 1..Len(header_cells) |-> get_text(header_cells[i])]

\* lines 203-207: the dict filled in cell order, a later cell of the same
\* header text replacing an earlier one
row_data_of(headers, cells) ==
    LET keys == {headers[i] : i \in 1..Len(headers)}
    IN  [h \in keys |->
            get_text(cells[Max({i \in 1..Len(headers) : headers[i] = h})])]

\* line 202
row_has_enough_cells(headers, cells) ==
    Len(cells) > 0 /\ Len(cells) >= Len(headers)

\* line 209: any(value.strip() for value in row_data.values())
row_has_text(row_data) ==
    \E h \in DOMAIN row_data : Strip(row_data[h]) # ""

\* lines 199-210: whether the row's data is appended
row_accepted(headers, row) ==
    /\ row_has_enough_cells(headers, row.td)
    /\ Call1(row_has_text,
             Call2(row_data_of, headers, Take(row.td, Len(headers))))

\* lines 203-210 for each of the accepted rows, in order
row_data_list(headers, accepted) ==
    [k \in 1..Len(accepted) |->
        Call2(row_data_of, headers, Take(accepted[k].td, Len(headers)))]

\* lines 197-213: the row_data of the accepted rows of rows[1:], in order
extract_rows(headers, rows) ==
    Call2(row_data_list, headers,
          SelectSeq(rows, LAMBDA row : row_accepted(headers, row)))

\* line 231 as "return result"
make_result_keeps_empty(headers, data, metadata) ==
    LET result == [headers |-> headers, data |-> data, row_count |-> Len(data)]
    IN  IF metadata # None THEN result @@ [metadata |-> metadata] ELSE result

\* lines 222-231
make_result(headers, data, metadata) ==
    LET result == [headers |-> headers, data |-> data, row_count |-> Len(data)]
        full   == IF metadata # None THEN result @@ [metadata |-> metadata]
                  ELSE result
    IN  IF Len(data) > 0 THEN full ELSE None

\* lines 197-231: the table has headers
parse_rows(soup, headers, rows) ==
    IF Len(headers) = 0 THEN None
    ELSE Call3(make_result, headers,
               Call2(extract_rows, headers, Tail(rows)),
               extract_metadata(soup))

\* lines 176-231: the table is selected
parse_table(soup, table) ==
    IF Len(table.rows) = 0 THEN None
    ELSE Call3(parse_rows, soup, header_texts(table.rows[1]), table.rows)

\* lines 145-236
parse_html_table(soup) ==
    IF Len(soup.tables) = 0 THEN None
    ELSE Call2(parse_table, soup, soup.tables[select_table(soup.tables)])

(***************************************************************************)
(* Transport: make_request                                                 *)
(***************************************************************************)
retry_attempts == 2

\* What brotli.decompress / gzip.decompress (followed by .decode) gives when
\* it raises
DecompressFail == [fail |-> TRUE]

\* Python: c.lower() for one character, on ASCII letters
LowerChar(c) ==
    LET upper == "ABCDEFGHIJKLMNOPQRSTUVWXYZ"
        lower == "abcdefghijklmnopqrstuvwxyz"
    IN  IF FindFrom(upper, c, 1) = 0 THEN c
        ELSE CharAt(lower, FindFrom(upper, c, 1))

RECURSIVE LowerFrom(_, _)
\* Python: s[i-1:].lower()
LowerFrom(s, i) ==
    Call2(LAMBDA t, j :
              IF j > Len(t) THEN ""
              ELSE LowerChar(CharAt(t, j)) \o LowerFrom(t, j + 1),
          s, i)

\* Python: s.lower(), on ASCII letters
Lower(s) == LowerFrom(s, 1)

\* line 104: the number of characters of content that are inspected
head_chars == 20

\* line 104: head is content[:head_chars] as character codes
non_printable(head) ==
    Cardinality({i \in 1..Len(head) : head[i] < 32 \/ head[i] > 126})

\* lines 103-105
looks_binary(head) == Len(head) > 0 /\ non_printable(head) > 10

\* lines 107-130: the manual decompression.  resp.br and resp.gz are what
\* brotli and gzip make of the raw payload: a document or DecompressFail
decompress(resp) ==
    IF ~resp.brotli_installed THEN None
    ELSE IF Contains(Lower(resp.encoding), "br")
         THEN (IF resp.br = DecompressFail THEN None ELSE resp.br)
    ELSE IF Contains(Lower(resp.encoding), "gzip")
         THEN (IF resp.gz = DecompressFail THEN None ELSE resp.gz)
    ELSE IF resp.br # DecompressFail THEN resp.br
    ELSE IF resp.gz # DecompressFail THEN resp.gz
    ELSE None

\* lines 100-135: what a successful response gives back
content_of(resp) ==
    IF looks_binary(resp.head) THEN decompress(resp) ELSE resp.html

\* raise_for_status() moved before the 404 test
try_request_404_raises(resp) ==
    IF resp.raised
    THEN [kind |-> "except", error |-> "ConnectionError"]
    ELSE IF resp.status >= 400
    THEN [kind |-> "except", error |-> "HTTPError"]
    ELSE [kind |-> "return", value |-> content_of(resp)]

\* lines 86-138: one pass through the try block.  resp.raised: session.get
\* raised (connection error, timeout); otherwise resp.status is the status
try_request(resp) ==
    IF resp.raised
    THEN [kind |-> "except", error |-> "ConnectionError"]
    ELSE IF resp.status = 404
    THEN [kind |-> "return", value |-> None]
    ELSE IF resp.status >= 400
    THEN [kind |-> "except", error |-> "HTTPError"]
    ELSE [kind |-> "return", value |-> content_of(resp)]

\* <= for <
may_retry_once_more(retry_count) == retry_count <= retry_attempts

\* line 139
may_retry(retry_count) == retry_count < retry_attempts

(***************************************************************************)
(* State                                                                   *)
(***************************************************************************)
VARIABLES
    \* Dataset Builder / Entity Aggregator (EuronextESGScraper)
    companies,      \* the identity list read_csv returned
    pc,             \* where the run is
    idx,            \* number of companies whose scrape_company has begun
    ep,             \* endpoint being fetched: 1..3 indicators, 4 ratings
    retry_count,    \* make_request's retry_count
    ret,            \* what the finished make_request call gave its caller
    company_data,   \* scrape_company's company_data
    has_any_data,   \* scrape_company's has_any_data
    results,        \* self.results
    failures,       \* self.failures
    written,        \* the files save_results has written, in order
    \* history of the run
    attempts,       \* responses the current make_request call has received
    sleeps,         \* retry delays slept in the current make_request call
    calls,          \* endpoints make_request was called for, this company
    raised,         \* <<idx, ep>> of every make_request call that raised
    yielded,        \* idx of every company some endpoint gave rows for
    \* Table Extractor called on one document
    doc,            \* the parsed document (soup)
    parsed,         \* what parse_html_table returned for doc
    footer_meta,    \* what extract_metadata returned for doc
    \* Flattener (ESGJsonToCsvConverter)
    json_file,      \* the Dataset in the file at json_file_path
    data,           \* self.data
    csv_output,     \* the files of ./csv_output: file name -> lines
    \* history of the Flattener
    converted,      \* how many times each projection has run
    prefix_log      \* the column prefixes the pivot projection has generated

runVars == <<companies, pc, idx, ep, retry_count, ret, company_data,
             has_any_data, results, failures, written,
             attempts, sleeps, calls, raised, yielded>>

extractVars == <<doc, parsed, footer_meta>>

flatVars == <<json_file, data, csv_output, converted, prefix_log>>

vars == <<runVars, extractVars, flatVars>>

\* the value of a variable no call has assigned yet
NotCalled == [not_called |-> TRUE]

(***************************************************************************)
(* Entity Aggregator: scrape_company                                       *)
(***************************************************************************)
base_urls ==
    [indicators |-> "https://live.euronext.com/en/ajax/getEsgIndicatorsBlock",
     ratings    |-> "https://live.euronext.com/en/ajax/getEsgRatingsBlock"]

endpoints == << "esg_environmental_indicators",
                "esg_social_governance_indicators",
                "esg_eu_taxonomy_csrd_eligibility" >>

RatingsEp == Len(endpoints) + 1

\* the key a result is stored under, and the endpoint a failure names
endpoint_name(e) == IF e <= Len(endpoints) THEN endpoints[e] ELSE "esg_ratings"

\* Python: d.get(k) for a str-valued d
DictGet(d, k) == IF k \in DOMAIN d THEN d[k] ELSE NoneStr

\* line 299
identifier(company) == company.ISIN \o "-" \o company.MIC

\* lines 305 and 347
endpoint_url(company, e) ==
    IF e <= Len(endpoints)
    THEN base_urls.indicators \o "/" \o identifier(company) \o "/" \o endpoints[e]
    ELSE base_urls.ratings \o "/" \o identifier(company)

\* lines 286-297 (datetime.now() is not modelled: the timestamp is opaque)
new_company_data(company) ==
    [company |-> [name     |-> company.Name,
                  isin     |-> company.ISIN,
                  mic      |-> company.MIC,
                  symbol   |-> DictGet(company, "Symbol"),
                  market   |-> DictGet(company, "Market"),
                  currency |-> DictGet(company, "Currency")],
     esg_data |-> EmptyDict,
     scrape_timestamp |-> "timestamp"]

\* lines 336-343 and 375-382
failure_record(company, e, error_msg) ==
    [company  |-> company.Name,
     isin     |-> company.ISIN,
     mic      |-> company.MIC,
     endpoint |-> endpoint_name(e),
     error    |-> error_msg,
     url      |-> endpoint_url(company, e)]

\* lines 324 and 361
has_rows(parsed_data) == parsed_data # None /\ parsed_data.row_count > 0

\* lines 312-318 and 353-354: the fetched text goes on to the parser
is_parsed(r) == r.kind = "return" /\ r.value # None /\ ~r.value.blank

\* lines 324-325 and 361-362
attach_parsed(cd, e, parsed_data) ==
    IF has_rows(parsed_data)
    THEN [cd EXCEPT !.esg_data =
              DictSet(cd.esg_data, endpoint_name(e), parsed_data)]
    ELSE cd

\* lines 312-325 and 353-362: company_data after the endpoint's result
attach(cd, e, r) ==
    IF is_parsed(r) THEN Call3(attach_parsed, cd, e, parse_html_table(r.value))
    ELSE cd

\* lines 326 and 363
gave_data(r) == is_parsed(r) /\ has_rows(parse_html_table(r.value))

\* a None return (404) recorded like a raise
record_failure_on_none(fs, company, e, r) ==
    IF r.kind = "raise" THEN Append(fs, failure_record(company, e, r.error))
    ELSE IF r.value = None THEN Append(fs, failure_record(company, e, "404"))
    ELSE fs

\* lines 333-343 and 372-382
record_failure(fs, company, e, r) ==
    IF r.kind = "raise" THEN Append(fs, failure_record(company, e, r.error))
    ELSE fs

\* lines 314 and 318: the two continue statements, which skip line 345
skips_delay(r) == r.kind = "return" /\ (r.value = None \/ r.value.blank)

\* the has_any_data test dropped
keep_company_always(rs, cd, any_data) == Append(rs, cd)

\* lines 384-385
keep_company(rs, cd, any_data) == IF any_data THEN Append(rs, cd) ELSE rs

Pending == [kind |-> "pending"]

\* make_request has returned to scrape_company and its frames are gone
EndCall ==
    /\ retry_count' = 0
    /\ ret' = Pending
    /\ attempts' = <<>>
    /\ sleeps' = 0

\* make_request(url) is entered for endpoint e
BeginCall(e) ==
    /\ ep' = e
    /\ retry_count' = 0
    /\ ret' = Pending
    /\ attempts' = <<>>
    /\ sleeps' = 0
    /\ calls' = IF e = 1 THEN <<endpoint_name(e)>>
                ELSE Append(calls, endpoint_name(e))
    /\ pc' = "request"

\* scrape_all line 420-421 and scrape_company lines 284-310: the next company
StartCompany ==
    /\ pc = "loop"
    /\ idx < Len(companies)
    /\ idx' = idx + 1
    /\ company_data' = new_company_data(companies[idx + 1])
    /\ has_any_data' = FALSE
    /\ BeginCall(1)
    /\ UNCHANGED <<companies, results, failures, written, raised, yielded>>
    /\ UNCHANGED <<extractVars, flatVars>>

\* make_request lines 86-143: one session.get and what follows it, up to
\* the return, the raise, or the sleep before the retry
Request(Rs) ==
    /\ pc = "request"
    /\ \E resp \in Rs :
         LET r == try_request(resp) IN
         /\ attempts' = Append(attempts, resp)
         /\ IF r.kind = "return"
            THEN /\ ret' = r
                 /\ pc' = "returned"
            ELSE IF may_retry(retry_count)
            THEN /\ ret' = ret
                 /\ pc' = "retry_sleep"
            ELSE /\ ret' = [kind |-> "raise", error |-> r.error]
                 /\ pc' = "returned"
    /\ UNCHANGED <<companies, idx, ep, retry_count, company_data, has_any_data,
                   results, failures, written, sleeps, calls, raised, yielded>>
    /\ UNCHANGED <<extractVars, flatVars>>

\* lines 141-142: time.sleep(self.retry_delay), then the recursive call
RetrySleep ==
    /\ pc = "retry_sleep"
    /\ sleeps' = sleeps + 1
    /\ retry_count' = retry_count + 1
    /\ pc' = "request"
    /\ UNCHANGED <<companies, idx, ep, ret, company_data, has_any_data,
                   results, failures, written, attempts, calls, raised, yielded>>
    /\ UNCHANGED <<extractVars, flatVars>>

\* history: what the endpoint's outcome adds to raised and yielded
NoteOutcome ==
    /\ raised' = IF ret.kind = "raise" THEN Append(raised, <<idx, ep>>)
                 ELSE raised
    /\ yielded' = IF gave_data(ret) THEN yielded \cup {idx} ELSE yielded

\* lines 312-345: an indicator endpoint's make_request has finished
HandleIndicator ==
    /\ pc = "returned"
    /\ ep <= Len(endpoints)
    /\ company_data' = attach(company_data, ep, ret)
    /\ has_any_data' = (has_any_data \/ gave_data(ret))
    /\ failures' = record_failure(failures, companies[idx], ep, ret)
    /\ NoteOutcome
    /\ IF skips_delay(ret)
       THEN BeginCall(ep + 1)
       ELSE /\ pc' = "delay"
            /\ EndCall
            /\ UNCHANGED <<ep, calls>>
    /\ UNCHANGED <<companies, idx, results, written>>
    /\ UNCHANGED <<extractVars, flatVars>>

\* line 345: time.sleep(self.request_delay), then the next endpoint
RequestDelay ==
    /\ pc = "delay"
    /\ BeginCall(ep + 1)
    /\ UNCHANGED <<companies, idx, company_data, has_any_data, results,
                   failures, written, raised, yielded>>
    /\ UNCHANGED <<extractVars, flatVars>>

\* lines 353-388: the ratings make_request has finished
HandleRatings ==
    /\ pc = "returned"
    /\ ep = RatingsEp
    /\ company_data' = attach(company_data, ep, ret)
    /\ has_any_data' = (has_any_data \/ gave_data(ret))
    /\ failures' = record_failure(failures, companies[idx], ep, ret)
    /\ NoteOutcome
    /\ results' = keep_company(results, company_data', has_any_data')
    /\ pc' = "end_delay"
    /\ EndCall
    /\ UNCHANGED <<companies, idx, ep, written, calls>>
    /\ UNCHANGED <<extractVars, flatVars>>

\* line 390: time.sleep(self.request_delay), and scrape_company returns to
\* scrape_all lines 423-425
EndDelay ==
    /\ pc = "end_delay"
    /\ pc' = "loop"
    /\ ep' = 0
    /\ company_data' = None
    /\ has_any_data' = FALSE
    /\ calls' = <<>>
    /\ UNCHANGED <<companies, idx, retry_count, ret, results, failures,
                   written, attempts, sleeps, raised, yielded>>
    /\ UNCHANGED <<extractVars, flatVars>>

(***************************************************************************)
(* Dataset Builder: save_results                                           *)
(***************************************************************************)
\* lines 432-442
main_output(rs, fs) ==
    [metadata |-> [total_companies_attempted |-> Len(rs) + Len(fs),
                   successful_companies |-> Len(rs),
                   failed_companies |-> Len(fs),
                   endpoints_per_company |-> 4],
     companies |-> rs]

\* lines 447-453
failures_output(fs) ==
    [metadata |-> [total_failures |-> Len(fs)],
     failed_requests |-> fs]

\* the second dump dropped
saved_files_data_only(rs, fs) ==
    << [file |-> "euronext_esg_data.json", content |-> main_output(rs, fs)] >>

\* lines 444-456: the two files, in the order they are written
saved_files(rs, fs) ==
    << [file |-> "euronext_esg_data.json", content |-> main_output(rs, fs)],
       [file |-> "failed_requests.json", content |-> failures_output(fs)] >>

\* scrape_all lines 427-428: the loop is over
SaveResults ==
    /\ pc = "loop"
    /\ idx = Len(companies)
    /\ written' = written \o saved_files(results, failures)
    /\ pc' = "done"
    /\ UNCHANGED <<companies, idx, ep, retry_count, ret, company_data,
                   has_any_data, results, failures,
                   attempts, sleeps, calls, raised, yielded>>
    /\ UNCHANGED <<extractVars, flatVars>>

(***************************************************************************)
(* Flattener: ESGJsonToCsvConverter (src/json_to_csv_converter.py)         *)
(*                                                                         *)
(* A row of a projection is a Python dict whose key order is the column    *)
(* order: the sequence of its <<key, value>> items.  A value is Str(s),    *)
(* Num(n) or None.  A loaded JSON null is None, and stands for every value *)
(* that is not a dict where a dict is tested for.                          *)
(***************************************************************************)
Str(s) == [str |-> s]
Num(n) == [int |-> n]

odict_has(d, k) == \E i \in 1..Len(d) : d[i][1] = k

\* Python: d[k] = v, the key keeping its place when it is there already
odict_set(d, k, v) ==
    IF odict_has(d, k)
    THEN [i \in 1..Len(d) |-> IF d[i][1] = k THEN <<k, v>> ELSE d[i]]
    ELSE Append(d, <<k, v>>)

\* Python: d.get(k)
odict_get(d, k) ==
    IF odict_has(d, k) THEN d[CHOOSE i \in 1..Len(d) : d[i][1] = k][2]
    ELSE None

RECURSIVE odict_update(_, _)
\* Python: d.update(items)
odict_update(d, items) ==
    IF items = <<>> THEN d
    ELSE odict_update(odict_set(d, items[1][1], items[1][2]), Tail(items))

\* Python: d.get(k, default) for a loaded JSON object d
record_get(d, k, default) == IF k \in DOMAIN d THEN d[k] ELSE default

\* Python: d.get(k) for a loaded JSON object d of strings and nulls
json_get(d, k) ==
    IF k \notin DOMAIN d THEN None
    ELSE IF d[k] = NoneStr THEN None
    ELSE Str(d[k])

\* Python: isinstance(category_data, dict)
is_dict(category_data) == category_data # None

\* Python: esg_data.items() gives the categories in the order of the file,
\* which is the order scrape_company inserts them in
category_order == endpoints \o <<"esg_ratings">>

items(esg_data) ==
    SelectSeq(category_order, LAMBDA category : category \in DOMAIN esg_data)

\* self.data.get('companies', [])
companies_of(dataset) == record_get(dataset, "companies", <<>>)

\* lines 40-48, 77-85, 122-130, 171-179
base_row(company_record) ==
    LET company_info == record_get(company_record, "company", EmptyDict)
    IN  << <<"company_name", json_get(company_info, "name")>>,
           <<"isin", json_get(company_info, "isin")>>,
           <<"mic", json_get(company_info, "mic")>>,
           <<"symbol", json_get(company_info, "symbol")>>,
           <<"market", json_get(company_info, "market")>>,
           <<"currency", json_get(company_info, "currency")>>,
           <<"scrape_timestamp", json_get(company_record, "scrape_timestamp")>> >>

\* lines 51-57: what one category adds to the summary row
summary_cells(row, category, category_data) ==
    IF is_dict(category_data) /\ "row_count" \in DOMAIN category_data
    THEN LET counted == odict_set(row, category \o "_indicators_count",
                                  Num(category_data.row_count))
             metadata == record_get(category_data, "metadata", EmptyDict)
         IN  IF DOMAIN metadata # {}
             THEN odict_set(
                      odict_set(counted, category \o "_source",
                                json_get(metadata, "source")),
                      category \o "_last_update",
                      json_get(metadata, "last_update"))
             ELSE counted
    ELSE row

RECURSIVE summary_row_from(_, _, _, _)
\* lines 50-57 for the categories cats[i..]
summary_row_from(row, esg_data, cats, i) ==
    IF i > Len(cats) THEN row
    ELSE summary_row_from(summary_cells(row, cats[i], esg_data[cats[i]]),
                          esg_data, cats, i + 1)

\* lines 36-59: the row of one company
summary_row(company_record) ==
    LET esg_data == record_get(company_record, "esg_data", EmptyDict)
    IN  summary_row_from(base_row(company_record), esg_data, items(esg_data), 1)

\* lines 34-59
summary_rows(dataset) ==
    [k \in 1..Len(companies_of(dataset)) |->
        summary_row(companies_of(dataset)[k])]

\* lines 95-101 and 142-148
indicator_cells(indicator_row, metadata) ==
    << <<"indicator", json_get(indicator_row, "Indicator")>>,
       <<"unit", json_get(indicator_row, "Unit")>>,
       <<"value_2024", json_get(indicator_row, "2024")>>,
       <<"value_2023", json_get(indicator_row, "2023")>>,
       <<"value_2022", json_get(indicator_row, "2022")>>,
       <<"data_source", json_get(metadata, "source")>>,
       <<"data_last_update", json_get(metadata, "last_update")>> >>

\* lines 88 and 133
has_data(category_data) ==
    is_dict(category_data) /\ "data" \in DOMAIN category_data

\* lines 89-103: the detailed rows of one category of one company
detailed_rows_of_category(base, category, category_data) ==
    IF has_data(category_data)
    THEN LET metadata == record_get(category_data, "metadata", EmptyDict)
         IN  [k \in 1..Len(category_data.data) |->
                odict_update(base,
                    << <<"esg_category", Str(category)>> >>
                    \o indicator_cells(category_data.data[k], metadata))]
    ELSE <<>>

\* every row built from the first data row of the category
category_rows_of_company_first_row(company_record, category) ==
    LET esg_data == record_get(company_record, "esg_data", EmptyDict)
    IN  IF category \in DOMAIN esg_data /\ has_data(esg_data[category])
        THEN LET metadata == record_get(esg_data[category], "metadata", EmptyDict)
             IN  [k \in 1..Len(esg_data[category].data) |->
                    odict_update(base_row(company_record),
                        indicator_cells(esg_data[category].data[1], metadata))]
        ELSE <<>>

\* lines 137-150: the rows one company adds to the table of one category
category_rows_of_company(company_record, category) ==
    LET esg_data == record_get(company_record, "esg_data", EmptyDict)
    IN  IF category \in DOMAIN esg_data /\ has_data(esg_data[category])
        THEN LET metadata == record_get(esg_data[category], "metadata", EmptyDict)
             IN  [k \in 1..Len(esg_data[category].data) |->
                    odict_update(base_row(company_record),
                        indicator_cells(esg_data[category].data[k], metadata))]
        ELSE <<>>

RECURSIVE detailed_rows_from(_, _, _, _)
\* lines 87-103 for the categories cats[i..]
detailed_rows_from(base, esg_data, cats, i) ==
    IF i > Len(cats) THEN <<>>
    ELSE detailed_rows_of_category(base, cats[i], esg_data[cats[i]])
         \o detailed_rows_from(base, esg_data, cats, i + 1)

\* lines 73-103: the rows of one company
detailed_rows_of_company(company_record) ==
    LET esg_data == record_get(company_record, "esg_data", EmptyDict)
    IN  detailed_rows_from(base_row(company_record), esg_data, items(esg_data), 1)

\* lines 71-103: the rows of the companies, in the order of the companies
detailed_rows(dataset) ==
    LET RECURSIVE upto(_)
        upto(n) ==
            IF n = 0 THEN <<>>
            ELSE upto(n - 1)
                 \o detailed_rows_of_company(companies_of(dataset)[n])
    IN  upto(Len(companies_of(dataset)))

\* lines 118-150: categories_data[category]
category_rows(dataset, category) ==
    LET RECURSIVE upto(_)
        upto(n) ==
            IF n = 0 THEN <<>>
            ELSE upto(n - 1)
                 \o category_rows_of_company(companies_of(dataset)[n], category)
    IN  upto(Len(companies_of(dataset)))

\* lines 132-135: the keys of categories_data
categories_with_data(dataset) ==
    { category \in {category_order[i] : i \in 1..Len(category_order)} :
        \E k \in 1..Len(companies_of(dataset)) :
            LET esg_data == record_get(companies_of(dataset)[k], "esg_data",
                                       EmptyDict)
            IN  category \in DOMAIN esg_data /\ has_data(esg_data[category]) }

(***************************************************************************)
\* the parentheses replaced by underscores, like the other characters
col_prefix_parens_to_underscore(category, indicator_name) ==
    Replace(Replace(Replace(Replace(Replace(
        category \o "_" \o indicator_name,
        " ", "_"), "(", "_"), ")", "_"), "/", "_"), "-", "_")

\* line 187
col_prefix(category, indicator_name) ==
    Replace(Replace(Replace(Replace(Replace(
        category \o "_" \o indicator_name,
        " ", "_"), "(", ""), ")", ""), "/", "_"), "-", "_")

\* lines 184-192: what one data row adds to the pivot row
pivot_cells(row, category, indicator_row) ==
    LET indicator_name == record_get(indicator_row, "Indicator", "")
        unit == record_get(indicator_row, "Unit", "")
        prefix == col_prefix(category, indicator_name)
    IN  odict_set(
            odict_set(
                odict_set(
                    odict_set(row, prefix \o "_2024",
                              json_get(indicator_row, "2024")),
                    prefix \o "_2023", json_get(indicator_row, "2023")),
                prefix \o "_2022", json_get(indicator_row, "2022")),
            prefix \o "_unit", Str(unit))

RECURSIVE pivot_row_from_rows(_, _, _, _)
\* lines 183-192 for the data rows rows[k..]
pivot_row_from_rows(row, category, rows, k) ==
    IF k > Len(rows) THEN row
    ELSE pivot_row_from_rows(pivot_cells(row, category, rows[k]),
                             category, rows, k + 1)

RECURSIVE pivot_row_from(_, _, _, _)
\* lines 181-192 for the categories cats[i..]
pivot_row_from(row, esg_data, cats, i) ==
    IF i > Len(cats) THEN row
    ELSE pivot_row_from(
             IF has_data(esg_data[cats[i]])
             THEN pivot_row_from_rows(row, cats[i], esg_data[cats[i]].data, 1)
             ELSE row,
             esg_data, cats, i + 1)

\* lines 167-194: the row of one company
pivot_row(company_record) ==
    LET esg_data == record_get(company_record, "esg_data", EmptyDict)
    IN  pivot_row_from(base_row(company_record), esg_data, items(esg_data), 1)

\* lines 165-194
pivot_rows(dataset) ==
    [k \in 1..Len(companies_of(dataset)) |-> pivot_row(companies_of(dataset)[k])]

\* history: the (category, indicator) pairs line 187 is reached with, each
\* with the prefix computed for it
prefixes_of(dataset) ==
    UNION { LET esg_data == record_get(companies_of(dataset)[k], "esg_data",
                                       EmptyDict)
            IN  UNION { { [category  |-> category,
                           indicator |-> record_get(esg_data[category].data[r],
                                                    "Indicator", ""),
                           prefix    |-> col_prefix(category,
                                            record_get(esg_data[category].data[r],
                                                       "Indicator", ""))] :
                            r \in 1..Len(esg_data[category].data) } :
                        category \in {c \in DOMAIN esg_data :
                                         has_data(esg_data[c])} } :
            k \in 1..Len(companies_of(dataset)) }

odict_keys(d) == [i \in 1..Len(d) |-> d[i][1]]

\* membership in a list
InSeq(x, xs) == \E i \in 1..Len(xs) : xs[i] = x

RECURSIVE columns_from(_, _, _)
\* pd.DataFrame(rows).columns: the keys of the rows in the order they are
\* first met
columns_from(columns, rows, k) ==
    IF k > Len(rows) THEN columns
    ELSE columns_from(
             columns \o SelectSeq(odict_keys(rows[k]),
                                  LAMBDA c : ~InSeq(c, columns)),
             rows, k + 1)

\* an integer column with a missing value is a float64 column
column_is_float(rows, c) == \E k \in 1..Len(rows) : ~odict_has(rows[k], c)

\* the text to_csv writes for the cell of column c in a row: nothing for a
\* missing value or None
csv_cell(rows, c, row) ==
    LET v == odict_get(row, c)
    IN  IF v = None THEN ""
        ELSE IF "int" \in DOMAIN v
        THEN (IF column_is_float(rows, c) THEN ToString(v.int) \o ".0"
              ELSE ToString(v.int))
        ELSE v.str

RECURSIVE JoinCommaFrom(_, _)
\* Python: ','.join(xs[i-1:])
JoinCommaFrom(xs, i) ==
    IF i > Len(xs) THEN ""
    ELSE IF i = Len(xs) THEN xs[i]
    ELSE xs[i] \o "," \o JoinCommaFrom(xs, i + 1)

\* pd.DataFrame(rows).to_csv(output_file, index=False): the lines of the
\* file, the header line first (no text here needs quoting; the header of a
\* frame without columns is written as one quoted empty field)
to_csv(rows) ==
    LET columns == columns_from(<<>>, rows, 1)
    IN  <<IF columns = <<>> THEN "\"\"" ELSE JoinCommaFrom(columns, 1)>>
        \o [k \in 1..Len(rows) |->
               JoinCommaFrom([i \in 1..Len(columns) |->
                                csv_cell(rows, columns[i], rows[k])], 1)]

\* the file opened for appending
write_csv_append(files, name, lines) ==
    IF name \in DOMAIN files THEN (name :> (files[name] \o lines)) @@ files
    ELSE (name :> lines) @@ files

\* to_csv opens output_file for writing: an earlier file of the name is
\* replaced
write_csv(files, name, lines) == (name :> lines) @@ files

\* lines 61-63
write_summary(files, dataset) ==
    write_csv(files, "companies_summary.csv", to_csv(summary_rows(dataset)))

\* lines 105-107
write_detailed(files, dataset) ==
    write_csv(files, "indicators_detailed.csv", to_csv(detailed_rows(dataset)))

RECURSIVE write_categories_from(_, _, _, _)
\* lines 152-157 for the categories cats[i..]
write_categories_from(files, dataset, cats, i) ==
    IF i > Len(cats) THEN files
    ELSE write_categories_from(
             write_csv(files, cats[i] \o ".csv",
                       to_csv(category_rows(dataset, cats[i]))),
             dataset, cats, i + 1)

\* lines 152-157
write_by_category(files, dataset) ==
    write_categories_from(files, dataset,
        SelectSeq(category_order,
                  LAMBDA category : category \in categories_with_data(dataset)),
        1)

\* lines 196-198
write_pivot(files, dataset) ==
    write_csv(files, "esg_data_pivot.csv", to_csv(pivot_rows(dataset)))

MaxRuns == 2

Projections == {"summary", "detailed", "category", "pivot"}

NoneConverted == [f \in Projections |-> 0]

\* load_json, lines 20-28
LoadJson ==
    /\ json_file # None
    /\ data = None
    /\ data' = json_file
    /\ UNCHANGED <<runVars, extractVars, json_file, csv_output, converted,
                   prefix_log>>

\* convert_companies_summary, lines 30-65
ConvertCompaniesSummary ==
    /\ data # None
    /\ converted["summary"] < MaxRuns
    /\ csv_output' = write_summary(csv_output, data)
    /\ converted' = [converted EXCEPT !["summary"] = @ + 1]
    /\ UNCHANGED <<runVars, extractVars, json_file, data, prefix_log>>

\* convert_indicators_detailed, lines 67-109
ConvertIndicatorsDetailed ==
    /\ data # None
    /\ converted["detailed"] < MaxRuns
    /\ csv_output' = write_detailed(csv_output, data)
    /\ converted' = [converted EXCEPT !["detailed"] = @ + 1]
    /\ UNCHANGED <<runVars, extractVars, json_file, data, prefix_log>>

\* convert_by_category, lines 111-159
ConvertByCategory ==
    /\ data # None
    /\ converted["category"] < MaxRuns
    /\ csv_output' = write_by_category(csv_output, data)
    /\ converted' = [converted EXCEPT !["category"] = @ + 1]
    /\ UNCHANGED <<runVars, extractVars, json_file, data, prefix_log>>

\* convert_pivot_table, lines 161-200
ConvertPivotTable ==
    /\ data # None
    /\ converted["pivot"] < MaxRuns
    /\ csv_output' = write_pivot(csv_output, data)
    /\ converted' = [converted EXCEPT !["pivot"] = @ + 1]
    /\ prefix_log' = prefix_log \cup prefixes_of(data)
    /\ UNCHANGED <<runVars, extractVars, json_file, data>>

\* convert_all_formats, lines 202-219: the four projections in turn
ConvertAllFormats ==
    /\ data # None
    /\ \A f \in Projections : converted[f] < MaxRuns
    /\ csv_output' =
          write_pivot(
              write_by_category(
                  write_detailed(write_summary(csv_output, data), data),
                  data),
              data)
    /\ converted' = [f \in Projections |-> converted[f] + 1]
    /\ prefix_log' = prefix_log \cup prefixes_of(data)
    /\ UNCHANGED <<runVars, extractVars, json_file, data>>

(***************************************************************************)
(* The run: inputs and specification                                       *)
(***************************************************************************)
MaxCompanies == 2

Identities ==
    { [Name |-> "Alpha", ISIN |-> "FR0001", MIC |-> "XPAR",
       Symbol |-> "ALP", Market |-> "Euronext Paris", Currency |-> "EUR"],
      [Name |-> "Beta", ISIN |-> "NL0002", MIC |-> "XAMS"] }

IdentityLists ==
    UNION {[1..n -> Identities] : n \in 0..MaxCompanies}

Cell(raw) == [text |-> raw]
Row(th, td) == [th |-> th, td |-> td]

DataDoc ==
    [blank  |-> FALSE,
     tables |-> << [class |-> <<"table">>,
                    rows  |-> << Row(<<"Indicator", "Unit", "2024">>, <<>>),
                                 Row(<<>>, <<"GHG Emissions (Scope 1)",
                                             " tCO2e ", "12">>) >>] >>,
     footer |-> [p |-> Cell("Source: ABC Ltd - Last Update: 2024-01-01")]]

NoTableDoc == [blank |-> FALSE, tables |-> <<>>, footer |-> None]

BlankDoc == [blank |-> TRUE, tables |-> <<>>, footer |-> None]

PlainHead == <<60, 116, 97, 98, 108, 101, 62>>
BinaryHead == [i \in 1..head_chars |-> IF i % 2 = 0 THEN 139 ELSE 31]

Response(status, head, html) ==
    [raised |-> FALSE, status |-> status, head |-> head, html |-> html,
     encoding |-> "", brotli_installed |-> TRUE,
     br |-> DecompressFail, gz |-> DecompressFail]

NoResponse == [Response(0, <<>>, BlankDoc) EXCEPT !.raised = TRUE]

\* what a request of the run may meet: a failure, a 404, and a 200 with
\* rows, with no table, or with an empty body
RunResponses ==
    { Response(500, PlainHead, NoTableDoc),
      Response(404, PlainHead, NoTableDoc),
      Response(200, PlainHead, DataDoc),
      Response(200, PlainHead, NoTableDoc),
      Response(200, <<>>, BlankDoc) }

\* no document has been handed to the Table Extractor
IdleExtract ==
    /\ doc = BlankDoc
    /\ parsed = NotCalled
    /\ footer_meta = NotCalled

\* no converter has been constructed
IdleFlat ==
    /\ json_file = None
    /\ data = None
    /\ csv_output = EmptyDict
    /\ converted = NoneConverted
    /\ prefix_log = {}

Init ==
    /\ IdleExtract
    /\ IdleFlat
    /\ companies \in IdentityLists
    /\ pc = "loop"
    /\ idx = 0
    /\ ep = 0
    /\ retry_count = 0
    /\ ret = Pending
    /\ company_data = None
    /\ has_any_data = FALSE
    /\ results = <<>>
    /\ failures = <<>>
    /\ written = <<>>
    /\ attempts = <<>>
    /\ sleeps = 0
    /\ calls = <<>>
    /\ raised = <<>>
    /\ yielded = {}

Next ==
    \/ StartCompany
    \/ Request(RunResponses)
    \/ RetrySleep
    \/ HandleIndicator
    \/ RequestDelay
    \/ HandleRatings
    \/ EndDelay
    \/ SaveResults

Spec == Init /\ [][Next]_vars

(***************************************************************************)
(* The run under fairness: the interpreter keeps running the one thread,   *)
(* session.get returns or raises within its timeout, time.sleep returns.   *)
(***************************************************************************)
MaxLiveCompanies == 2

Alpha == CHOOSE c \in Identities : c.Name = "Alpha"
Beta == CHOOSE c \in Identities : c.Name = "Beta"

LiveLists ==
    {[k \in 1..n |-> IF k % 2 = 1 THEN Alpha ELSE Beta] :
        n \in 0..MaxLiveCompanies}

\* a page whose only table has one header and one data row, and no footer
OneRowDoc ==
    [blank  |-> FALSE,
     tables |-> << [class |-> <<>>,
                    rows  |-> << Row(<<"H">>, <<>>),
                                 Row(<<>>, <<"v">>) >>] >>,
     footer |-> None]

\* a failure, a 404, a 200 with rows
LiveResponses ==
    { Response(500, PlainHead, NoTableDoc),
      Response(404, PlainHead, NoTableDoc),
      Response(200, PlainHead, OneRowDoc) }

InitFair ==
    /\ Init
    /\ companies \in LiveLists

NextFair ==
    \/ StartCompany
    \/ Request(LiveResponses)
    \/ RetrySleep
    \/ HandleIndicator
    \/ RequestDelay
    \/ HandleRatings
    \/ EndDelay
    \/ SaveResults

FairSpec == InitFair /\ [][NextFair]_vars /\ WF_vars(NextFair)

(***************************************************************************)
(* One make_request call against every kind of response                    *)
(***************************************************************************)
ShortHead == 3

TransportResponses ==
    RunResponses \cup
    { NoResponse,
      Response(403, PlainHead, NoTableDoc),
      Response(200, BinaryHead, NoTableDoc),
      [Response(200, BinaryHead, NoTableDoc) EXCEPT !.encoding = "br",
                                                    !.br = DataDoc],
      [Response(200, BinaryHead, NoTableDoc) EXCEPT !.encoding = "GZIP",
                                                    !.gz = DataDoc],
      [Response(200, BinaryHead, NoTableDoc) EXCEPT !.encoding = "gzip",
                                                    !.br = DataDoc],
      [Response(200, BinaryHead, NoTableDoc) EXCEPT !.gz = DataDoc],
      [Response(200, BinaryHead, NoTableDoc) EXCEPT !.gz = DataDoc,
                                                    !.brotli_installed = FALSE],
      [Response(200, BinaryHead, NoTableDoc) EXCEPT !.encoding = "br",
                                                    !.gz = DataDoc] }
    \cup
    \* gzip payloads of ShortHead and of head_chars characters or more, the
    \* first k of the inspected characters outside the printable range
    UNION { { [Response(200, [i \in 1..n |-> IF i <= k THEN 139 ELSE 65],
                        NoTableDoc) EXCEPT !.gz = DataDoc] : k \in 0..n } :
            n \in {ShortHead, head_chars} }

InitTransport ==
    /\ Init
    /\ Len(companies) = 1

NextTransport ==
    \/ StartCompany
    \/ Request(TransportResponses)
    \/ RetrySleep

SpecTransport == InitTransport /\ [][NextTransport]_vars

(***************************************************************************)
(* The Table Extractor on one document                                     *)
(***************************************************************************)
\* no run of the scraper is under way
IdleRun ==
    /\ companies = <<>>
    /\ pc = "idle"
    /\ idx = 0
    /\ ep = 0
    /\ retry_count = 0
    /\ ret = Pending
    /\ company_data = None
    /\ has_any_data = FALSE
    /\ results = <<>>
    /\ failures = <<>>
    /\ written = <<>>
    /\ attempts = <<>>
    /\ sleeps = 0
    /\ calls = <<>>
    /\ raised = <<>>
    /\ yielded = {}

\* parsed_data = self.parse_html_table(html), lines 145-236
ParseHtmlTable ==
    /\ parsed = NotCalled
    /\ parsed' = parse_html_table(doc)
    /\ UNCHANGED <<runVars, doc, footer_meta, flatVars>>

\* metadata = self.extract_metadata(soup), lines 238-270
ExtractMetadata ==
    /\ footer_meta = NotCalled
    /\ footer_meta' = extract_metadata(doc)
    /\ UNCHANGED <<runVars, doc, parsed, flatVars>>

MaxHeaders == 2
MaxCells == 3
MaxRows == 2
MaxMid == 3

\* the sequences over S of length at most n
SeqsUpTo(S, n) == UNION {[1..k -> S] : k \in 0..n}

RECURSIVE Concat(_)
\* the strings of a sequence, joined
Concat(xs) == IF xs = <<>> THEN "" ELSE Head(xs) \o Concat(Tail(xs))

TableOf(cls, rows) == [class |-> cls, rows |-> rows]

DocOf(tables, footer) == [blank |-> FALSE, tables |-> tables, footer |-> footer]

\* one table: a header row of td cells with the texts A and B, then rows of
\* td cells, each one that trims to nothing or one that trims to "x"
TableDocs ==
    { DocOf(<<TableOf(<<>>, <<Row(<<>>, hs)>> \o rs)>>, None) :
        hs \in SeqsUpTo({"A", "B"}, MaxHeaders),
        rs \in SeqsUpTo({Row(<<>>, cs) : cs \in SeqsUpTo({" ", "x "}, MaxCells)},
                        MaxRows) }

\* other shapes: no table, a table without rows, th headers, a th cell in a
\* data row, two tables of which the second has the class
ShapeDocs ==
    { NoTableDoc, DataDoc, OneRowDoc,
      DocOf(<<TableOf(<<"table">>, <<>>)>>, None),
      DocOf(<<TableOf(<<>>, <<Row(<<" A ">>, <<"ignored">>),
                              Row(<<"h">>, <<" x ">>)>>)>>, None),
      DocOf(<<TableOf(<<"other">>, <<Row(<<"A">>, <<>>), Row(<<>>, <<"1">>)>>),
              TableOf(<<"x", "table">>, <<Row(<<"B">>, <<>>),
                                         Row(<<>>, <<"2">>)>>)>>, None) }
    \cup
    \* two tables, each with no class, the class table, a class that has
    \* "table" inside a longer token, or two classes
    { DocOf(<<TableOf(c1, <<Row(<<"A">>, <<>>), Row(<<>>, <<"1">>)>>),
              TableOf(c2, <<Row(<<"B">>, <<>>), Row(<<>>, <<"2">>)>>)>>, None) :
        c1, c2 \in {<<>>, <<"table">>, <<"datatable">>, <<"x", "table">>} }

\* footer paragraph texts: either marker present or not, any text of at
\* most MaxMid characters between them
FooterTexts ==
    { pre \o src \o Concat(mid) \o upd \o post :
        pre \in {"", "x "},
        src \in {"Source:", ""},
        mid \in SeqsUpTo({"A", " ", "-"}, MaxMid),
        upd \in {"Last Update:", ""},
        post \in {"", " 2024 "} }

FooterDocs ==
    { DocOf(OneRowDoc.tables, [p |-> Cell(t)]) : t \in FooterTexts }
    \cup { DocOf(OneRowDoc.tables, [p |-> None]) }

ExtractDocs == TableDocs \cup ShapeDocs \cup FooterDocs

InitExtract ==
    /\ IdleRun
    /\ IdleFlat
    /\ doc \in ExtractDocs
    /\ parsed = NotCalled
    /\ footer_meta = NotCalled

NextExtract ==
    \/ ParseHtmlTable
    \/ ExtractMetadata

SpecExtract == InitExtract /\ [][NextExtract]_vars

(***************************************************************************)
(* The Flattener on one Dataset file                                       *)
(***************************************************************************)
MaxEntities == 2

\* what the Table Extractor gives for DataDoc
DataResult == parse_html_table(DataDoc)

\* two indicators whose texts differ in the parentheses only, no footer
TwoRowResult ==
    [headers |-> <<"Indicator", "Unit", "2024", "2023">>,
     data |-> << ("Indicator" :> "GHG Emissions (Scope 1)")
                 @@ ("Unit" :> "tCO2e") @@ ("2024" :> "12") @@ ("2023" :> "11"),
                 ("Indicator" :> "GHG Emissions Scope 1")
                 @@ ("Unit" :> "kt") @@ ("2024" :> "7") @@ ("2023" :> "") >>,
     row_count |-> 2]

\* a ratings table: no Indicator, Unit or year columns
RatingsResult ==
    [headers |-> <<"Agency", "Rating">>,
     data |-> << [Agency |-> "Water/Use-Co", Rating |-> "AA"] >>,
     row_count |-> 1,
     metadata |-> [raw_source |-> "ratings"]]

\* what a category of a Dataset file may hold: results of the extractor, an
\* entry with a count and no rows, an entry with no rows, a null
CategoryDatas ==
    { DataResult, TwoRowResult,
      [row_count |-> 3],
      [headers |-> <<"Indicator">>, data |-> <<>>, row_count |-> 0],
      None }

EntityOf(company, esg_data) ==
    [new_company_data(company) EXCEPT !.esg_data = esg_data]

Entities ==
    { EntityOf(Alpha, endpoints[1] :> cd) : cd \in CategoryDatas }
    \cup { EntityOf(Alpha, (endpoints[1] :> cd)
                            @@ ("esg_ratings" :> RatingsResult)) :
              cd \in CategoryDatas }
    \cup { EntityOf(Beta, endpoints[1] :> DataResult),
           EntityOf(Beta, "esg_ratings" :> RatingsResult) }

\* the Dataset files: what save_results writes for a list of entities
Datasets == { main_output(rs, <<>>) : rs \in SeqsUpTo(Entities, MaxEntities) }

InitFlat ==
    /\ IdleRun
    /\ IdleExtract
    /\ json_file \in Datasets
    /\ data = None
    /\ csv_output = EmptyDict
    /\ converted = NoneConverted
    /\ prefix_log = {}

NextFlat ==
    \/ LoadJson
    \/ ConvertCompaniesSummary
    \/ ConvertIndicatorsDetailed
    \/ ConvertByCategory
    \/ ConvertPivotTable
    \/ ConvertAllFormats

SpecFlat == InitFlat /\ [][NextFlat]_vars

(***************************************************************************)
(* Properties of the run                                                   *)
(***************************************************************************)
\* the members of a set of positions, in increasing order
RECURSIVE Ascending(_)
Ascending(S) ==
    IF S = {} THEN <<>>
    ELSE LET m == CHOOSE x \in S : \A y \in S : x <= y
         IN  <<m>> \o Ascending(S \ {m})

\* the identity fields an entity record carries for a company of the list
IdentityOf(company) ==
    [name |-> company.Name, isin |-> company.ISIN, mic |-> company.MIC]

RecordIdentity(rec) ==
    [name |-> rec.company.name, isin |-> rec.company.isin,
     mic |-> rec.company.mic]

\* C1: after a run, the entities of the written success dataset are exactly
\* the companies of the input list for which some endpoint gave a parsed
\* result with row_count > 0, each once, in input order.
C1_SuccessDataset ==
    pc = "done" =>
        LET entities == written[1].content.companies
            expected == Ascending(yielded)
        IN  /\ written[1].file = "euronext_esg_data.json"
            /\ Len(entities) = Len(expected)
            /\ \A k \in 1..Len(expected) :
                  /\ RecordIdentity(entities[k]) = IdentityOf(companies[expected[k]])
                  /\ entities[k].esg_data # EmptyDict

C1_Witness ==
    /\ pc = "done"
    /\ Len(companies) = 2
    /\ yielded = {2}
    /\ Len(raised) > 0

Last(xs) == xs[Len(xs)]

Got404(xs) == Len(xs) > 0 /\ ~Last(xs).raised /\ Last(xs).status = 404

\* C2: a request of make_request that gets 404, first or retried, ends the
\* call at once with None (no later request in that call), and the
\* aggregator then appends no failure and attaches no result for the endpoint.
C2_NotFound ==
    [][ /\ (attempts' # attempts /\ Got404(attempts')) =>
              /\ pc' = "returned"
              /\ ret' = [kind |-> "return", value |-> None]
        /\ \A k \in 1..(Len(attempts') - 1) :
              attempts'[k].raised \/ attempts'[k].status # 404
        /\ (pc = "returned" /\ Got404(attempts)) =>
              /\ failures' = failures
              /\ company_data'.esg_data = company_data.esg_data
              /\ endpoint_name(ep) \notin DOMAIN company_data'.esg_data
      ]_vars

C2_Witness ==
    /\ pc = "returned"
    /\ Len(attempts) = 2
    /\ Got404(attempts)

\* a response that sends make_request to its except branch
Failed(resp) == resp.raised \/ (resp.status >= 400 /\ resp.status # 404)

Succeeded(resp) == ~resp.raised /\ resp.status = 200

\* C3: a make_request call issues at most 3 requests, one retry delay before
\* each retry; it raises exactly when all 3 failed (network failure or a
\* non-404 error status); after two failures and a success it returns what
\* the third response holds.
C3_RetryBudget ==
    /\ Len(attempts) <= 3
    /\ pc = "request" => sleeps = Len(attempts)
    /\ pc \in {"retry_sleep", "returned"} => sleeps = Len(attempts) - 1
    /\ pc = "returned" =>
          /\ ret.kind \in {"return", "raise"}
          /\ ret.kind = "raise" <=>
                /\ Len(attempts) = 3
                /\ \A k \in 1..3 : Failed(attempts[k])
    /\ ( /\ pc = "returned"
         /\ Len(attempts) = 3
         /\ Failed(attempts[1]) /\ Failed(attempts[2])
         /\ Succeeded(attempts[3]) ) =>
          /\ ret.kind = "return"
          /\ ~looks_binary(attempts[3].head) => ret.value = attempts[3].html

C3_Witness ==
    /\ pc = "returned"
    /\ Len(attempts) = 3
    /\ attempts[1].raised
    /\ attempts[2].status = 500
    /\ Succeeded(attempts[3])
    /\ ret = [kind |-> "return", value |-> DataDoc]

\* the response the make_request call that has returned ended on
Answer == Last(attempts)

\* the call has returned on a 200 response with a non-empty payload
ReturnedPayload ==
    /\ pc = "returned"
    /\ Len(attempts) > 0
    /\ Succeeded(Answer)
    /\ Len(Answer.head) > 0

\* what the algorithm the content-encoding header names makes of the
\* payload (brotli when the header names none), and what the other one does
NamedDecode(resp) ==
    IF Lower(resp.encoding) = "gzip" THEN resp.gz ELSE resp.br

OtherDecode(resp) ==
    IF Lower(resp.encoding) = "gzip" THEN resp.br ELSE resp.gz

\* C12: for a payload make_request judges binary, the call returns what the
\* algorithm named by the content-encoding header makes of it, else what
\* the other algorithm makes of it, and None only when both fail; it raises
\* nothing.
C12_DecodeFallback ==
    (ReturnedPayload /\ looks_binary(Answer.head) /\ Answer.brotli_installed)
        => /\ ret.kind = "return"
           /\ ret.value = IF NamedDecode(Answer) # DecompressFail
                          THEN NamedDecode(Answer)
                          ELSE IF OtherDecode(Answer) # DecompressFail
                          THEN OtherDecode(Answer)
                          ELSE None

\* a gzip payload sent with content-encoding: br
C12_Witness ==
    /\ ReturnedPayload
    /\ looks_binary(Answer.head)
    /\ Answer.brotli_installed
    /\ Answer.encoding = "br"
    /\ Answer.br = DecompressFail
    /\ Answer.gz = DataDoc
    /\ ret = [kind |-> "return", value |-> None]

\* more than half of the inspected characters are outside 32..126
MostlyNonPrintable(head) ==
    2 * Cardinality({i \in 1..Len(head) : head[i] \notin 32..126}) > Len(head)

\* C13: a non-empty successful payload is treated as compressed binary (the
\* call returns what decompression gives) exactly when more than half of the
\* inspected characters are outside the printable range 32..126; otherwise
\* the call returns the payload as it is.
C13_BinaryThreshold ==
    ReturnedPayload
        => ret.value = IF MostlyNonPrintable(Answer.head)
                       THEN decompress(Answer)
                       ELSE Answer.html

\* a payload of ShortHead characters, all but one of them non-printable
C13_Witness ==
    /\ ReturnedPayload
    /\ Len(Answer.head) = ShortHead
    /\ Cardinality({i \in 1..Len(Answer.head) : Answer.head[i] \notin 32..126})
           = ShortHead - 1
    /\ Answer.gz = DataDoc
    /\ ret = [kind |-> "return", value |-> Answer.html]

AllEndpointNames == endpoints \o <<"esg_ratings">>

\* C4: for every company the four endpoints are fetched once each, in
\* order, whatever the earlier ones gave; the failures are exactly one record
\* per call that raised, naming its company, endpoint and URL.
C4_FailureIsolation ==
    /\ calls = SubSeq(AllEndpointNames, 1, Len(calls))
    /\ pc = "end_delay" => calls = AllEndpointNames
    /\ Len(failures) = Len(raised)
    /\ \A k \in 1..Len(raised) :
          LET company == companies[raised[k][1]]
              e == raised[k][2]
          IN  /\ failures[k].company = company.Name
              /\ failures[k].isin = company.ISIN
              /\ failures[k].mic = company.MIC
              /\ failures[k].endpoint = AllEndpointNames[e]
              /\ failures[k].url = endpoint_url(company, e)

C4_Witness ==
    /\ pc = "end_delay"
    /\ idx = 2
    /\ raised = <<<<2, 1>>, <<2, 4>>>>
    /\ DOMAIN company_data.esg_data = {endpoints[2]}

\* C5: every run ends, and the two output files are written once each, only
\* when the whole identity list has been processed.
C5_WritesOnceAtEnd ==
    /\ <>(pc = "done")
    /\ [](pc # "done" => written = <<>>)
    /\ [](pc = "done" =>
            /\ idx = Len(companies)
            /\ Len(written) = 2
            /\ written[1].file = "euronext_esg_data.json"
            /\ written[2].file = "failed_requests.json")

\* every request of a two-company run failed
C5_Witness ==
    /\ pc = "done"
    /\ Len(companies) = 2
    /\ Len(failures) = 8
    /\ written[1].content.companies = <<>>
    /\ Len(written[2].content.failed_requests) = 8

\* a step that enters make_request for the next endpoint
IssuesCall == calls' # calls /\ calls' # <<>>

\* C11: every make_request call of scrape_company, whatever it gave (content,
\* None for a 404, an empty body, a raised error), is followed by one
\* inter-request delay before the next call is issued, and a delay is slept
\* only after a call has ended, never for a retry.
C11_DelayAfterEveryCall ==
    [][ /\ IssuesCall => pc \in {"delay", "loop"}
        /\ pc' \in {"delay", "end_delay"} => pc = "returned" ]_vars

\* the call for the first endpoint has ended on a 404
C11_Witness ==
    /\ pc = "returned"
    /\ ep = 1
    /\ Got404(attempts)
    /\ ret = [kind |-> "return", value |-> None]

\* the metadata of the Dataset file save_results has written
WrittenCounts == written[1].content.metadata

\* C18: in the Dataset written at the end of a run the attempted count is
\* the number of identities the run processed and the success count is the
\* number of entities in the file, so that attempted >= success and the
\* attempted count does not depend on how many endpoints raised.
C18_AttemptedCount ==
    pc = "done" =>
        /\ WrittenCounts.total_companies_attempted = Len(companies)
        /\ WrittenCounts.successful_companies = Len(written[1].content.companies)
        /\ WrittenCounts.successful_companies = Cardinality(yielded)
        /\ WrittenCounts.total_companies_attempted
               >= WrittenCounts.successful_companies

\* a run over one identity, every endpoint of which raised
C18_Witness ==
    /\ pc = "done"
    /\ Len(companies) = 1
    /\ Len(raised) = 4
    /\ written[1].content.companies = <<>>
    /\ WrittenCounts.successful_companies = 0

(***************************************************************************)
(* Properties of the Table Extractor                                       *)
(***************************************************************************)
\* the rows of the table parse_html_table selects in doc
SelectedRows == doc.tables[select_table(doc.tables)].rows

\* the document has a table whose first row gives at least one header
HasHeaders ==
    /\ Len(doc.tables) > 0
    /\ Len(SelectedRows) > 0
    /\ Len(SelectedRows[1].th) + Len(SelectedRows[1].td) > 0

\* C6: parse_html_table returns None when the document has no table, when
\* the first row of the selected table gives no headers, and when no row
\* after it is accepted; a result that is not None has row_count equal to
\* the number of its rows, which is at least 1.
C6_NoneOrRows ==
    parsed # NotCalled =>
        /\ Len(doc.tables) = 0 => parsed = None
        /\ (Len(doc.tables) > 0 /\ ~HasHeaders) => parsed = None
        /\ ( /\ HasHeaders
             /\ \A k \in 2..Len(SelectedRows) :
                   ~row_accepted(header_texts(SelectedRows[1]), SelectedRows[k]) )
              => parsed = None
        /\ parsed # None =>
              /\ parsed.row_count = Len(parsed.data)
              /\ parsed.row_count >= 1

C6_Witness ==
    /\ parsed = None
    /\ HasHeaders
    /\ Len(SelectedRows) = 3
    /\ Len(SelectedRows[2].td) = 3

\* the rows after the header row with at least n cells, one of the first n
\* of which has text left after trimming
RowsWithText(headers, rows) ==
    SelectSeq(Tail(rows),
              LAMBDA row : /\ Len(row.td) >= Len(headers)
                           /\ \E i \in 1..Len(headers) : Strip(row.td[i]) # "")

\* what binding by position asks of the result, for the headers (repeated
\* or not) of the selected table
BoundByPosition(headers) ==
    LET emitted == RowsWithText(headers, SelectedRows)
    IN  IF emitted = <<>> THEN parsed = None
        ELSE /\ parsed # None
             /\ Len(parsed.data) = Len(emitted)
             /\ \A k \in 1..Len(emitted) : \A i \in 1..Len(headers) :
                   parsed.data[k][headers[i]] = Strip(emitted[k].td[i])

\* C7: with headers h_1..h_n (texts possibly repeated), the rows emitted
\* are exactly the rows after the header row that have at least n data
\* cells and some text in the first n after trimming, in document order,
\* and each binds every h_i to the trimmed text of its i-th cell.
C7_RowsByPosition ==
    (parsed # NotCalled /\ HasHeaders) =>
        BoundByPosition(header_texts(SelectedRows[1]))

\* the same, for header texts that are pairwise distinct
RowsByPositionDistinctHeaders ==
    LET headers == header_texts(SelectedRows[1])
    IN  ( /\ parsed # NotCalled
          /\ HasHeaders
          /\ \A i, j \in 1..Len(headers) : headers[i] = headers[j] => i = j )
        => BoundByPosition(headers)

\* a row whose first cell has text is dropped under the headers A, A
C7_Witness ==
    /\ doc = DocOf(<<TableOf(<<>>, <<Row(<<>>, <<"A", "A">>),
                                      Row(<<>>, <<"x ", " ">>)>>)>>, None)
    /\ parsed = None

\* s without the suffix, when s ends with it
RemoveSuffix(s, suffix) ==
    IF /\ Len(s) >= Len(suffix)
       /\ SubSeq(s, Len(s) - Len(suffix) + 1, Len(s)) = suffix
    THEN SubSeq(s, 1, Len(s) - Len(suffix))
    ELSE s

\* C8: for a footer paragraph text holding "Source:" and then
\* "Last Update:", source is the text between the two markers, trimmed and
\* with a trailing " -" removed, and last_update is the trimmed text after
\* "Last Update:"; for a text without "Source:" the metadata is raw_source
\* alone.
C8_MetadataSplit ==
    (footer_meta # NotCalled /\ doc.footer # None /\ doc.footer.p # None) =>
        LET text == Strip(doc.footer.p.text)
            i == FindFrom(text, "Source:", 1)
            j == IF i = 0 THEN 0
                 ELSE FindFrom(text, "Last Update:", i + Len("Source:"))
        IN  /\ (i # 0 /\ j # 0) =>
                  /\ DOMAIN footer_meta = {"raw_source", "source", "last_update"}
                  /\ footer_meta.source =
                        Strip(RemoveSuffix(
                            Strip(SubSeq(text, i + Len("Source:"), j - 1)),
                            " -"))
                  /\ footer_meta.last_update =
                        Strip(SubSeq(text, j + Len("Last Update:"), Len(text)))
            /\ i = 0 => footer_meta = [raw_source |-> text]

\* the hyphen that ends the source name "A-" is gone
C8_Witness ==
    /\ doc.footer # None
    /\ doc.footer.p = Cell("Source: A-Last Update: 2024 ")
    /\ footer_meta # NotCalled
    /\ footer_meta.source = "A"

\* the tables of doc that have "table" as one of their class tokens
TokenTables ==
    {i \in 1..Len(doc.tables) :
        \E k \in 1..Len(doc.tables[i].class) : doc.tables[i].class[k] = "table"}

\* the first of them in document order, else the first table
PreferredTable ==
    IF TokenTables # {} THEN CHOOSE i \in TokenTables : \A j \in TokenTables : i <= j
    ELSE 1

\* C14: parse_html_table works on the first table in document order that has
\* "table" as one of its class tokens, a longer token such as "datatable" not
\* counting, and on the first table when no table has the token.
C14_TableByToken ==
    (parsed # NotCalled /\ Len(doc.tables) > 0)
        => parsed = parse_table(doc, doc.tables[PreferredTable])

\* a table without class followed by a table of class "datatable"
C14_Witness ==
    /\ parsed # NotCalled
    /\ Len(doc.tables) = 2
    /\ doc.tables[1].class = <<>>
    /\ doc.tables[2].class = <<"datatable">>
    /\ parsed # None
    /\ parsed.headers = <<"B">>

(***************************************************************************)
(* Properties of the Flattener                                             *)
(***************************************************************************)
\* C9: the pivot projection gives the indicator "GHG Emissions (Scope 1)"
\* of category "esg_environmental_indicators" the column prefix
\* esg_environmental_indicators_GHG_Emissions_Scope_1; the same (category,
\* indicator) pair always gets the same prefix, whatever the entity, the
\* row or the run, and the written pivot table has the four columns of
\* every prefix generated.
C9_PivotPrefix ==
    /\ \A a \in prefix_log :
          ( /\ a.category = "esg_environmental_indicators"
            /\ a.indicator = "GHG Emissions (Scope 1)" )
          => a.prefix = "esg_environmental_indicators_GHG_Emissions_Scope_1"
    /\ \A a, b \in prefix_log :
          (a.category = b.category /\ a.indicator = b.indicator)
          => a.prefix = b.prefix
    /\ \A a \in prefix_log :
          /\ "esg_data_pivot.csv" \in DOMAIN csv_output
          /\ \A suffix \in {"_2024", "_2023", "_2022", "_unit"} :
                Contains(csv_output["esg_data_pivot.csv"][1],
                         "," \o a.prefix \o suffix)

\* the pivot projection has run twice over two entities that both have the
\* indicator of the example
C9_Witness ==
    /\ converted["pivot"] = 2
    /\ Len(companies_of(data)) = 2
    /\ \A k \in 1..2 : endpoints[1] \in DOMAIN companies_of(data)[k].esg_data
    /\ \E a \in prefix_log :
          /\ a.indicator = "GHG Emissions (Scope 1)"
          /\ a.prefix = "esg_environmental_indicators_GHG_Emissions_Scope_1"
    /\ Len(csv_output["esg_data_pivot.csv"]) = 3

\* C10: no projection changes the loaded Dataset or the file it was read
\* from, and a projection run again on it leaves every file written so far
\* as it is: the second output is identical to the first.
C10_Idempotent ==
    [][ /\ json_file' = json_file
        /\ data # None =>
              /\ data' = data
              /\ \A f \in DOMAIN csv_output :
                    /\ f \in DOMAIN csv_output'
                    /\ csv_output'[f] = csv_output[f]
      ]_vars

\* every projection has run twice on a Dataset of two entities with rows
C10_Witness ==
    /\ \A f \in Projections : converted[f] = 2
    /\ data # None
    /\ Len(companies_of(data)) = 2
    /\ Len(csv_output["indicators_detailed.csv"]) >= 4
    /\ Len(csv_output["esg_data_pivot.csv"]) = 3
    /\ Cardinality(DOMAIN csv_output) = 5

\* C15: the prefix the pivot projection gives a (category, indicator) pair is
\* category, "_" and indicator with every space, "(", ")", "/" and "-"
\* replaced by an underscore: it has as many characters as that text, each
\* one the underscore or the character of the text, letter case kept.
C15_PrefixReplacesAll ==
    \A a \in prefix_log :
        LET text == a.category \o "_" \o a.indicator
        IN  /\ Len(a.prefix) = Len(text)
            /\ \A i \in 1..Len(text) :
                  CharAt(a.prefix, i) =
                      IF CharAt(text, i) \in {" ", "(", ")", "/", "-"} THEN "_"
                      ELSE CharAt(text, i)

\* the pivot projection has met an indicator with parentheses and one
\* without
C15_Witness ==
    /\ converted["pivot"] >= 1
    /\ \E a, b \in prefix_log :
          /\ a.category = b.category
          /\ a.indicator = "GHG Emissions (Scope 1)"
          /\ b.indicator = "GHG Emissions Scope 1"
          /\ a.prefix = b.prefix

\* the categories of entity k of the loaded Dataset
CategoriesOf(k) == record_get(companies_of(data)[k], "esg_data", EmptyDict)

\* entity k has an entry for the category with a data list in it
HasDataList(k, category) ==
    /\ category \in DOMAIN CategoriesOf(k)
    /\ CategoriesOf(k)[category] # None
    /\ "data" \in DOMAIN CategoriesOf(k)[category]

\* entity k has at least one data row in the category
HasDataRow(k, category) ==
    /\ HasDataList(k, category)
    /\ Len(CategoriesOf(k)[category].data) > 0

AllCategories == {category_order[i] : i \in 1..Len(category_order)}

\* the cells of a line of a written file (no cell of the inputs has a comma)
CellsOf(line) == Split(line, ",")

\* C16: a category shows in the detailed, category and pivot projections
\* only if some entity has at least one data row in it (in particular no
\* category table is written for a category without data rows), while an
\* entry with a row_count gives the summary its count column even when it
\* has no data list.
C16_OnlyCategoriesWithRows ==
    data # None =>
        /\ \A category \in AllCategories :
              (category \o ".csv") \in DOMAIN csv_output
                  => \E k \in 1..Len(companies_of(data)) :
                        HasDataRow(k, category)
        /\ "indicators_detailed.csv" \in DOMAIN csv_output
              => \A n \in 2..Len(csv_output["indicators_detailed.csv"]) :
                    \E k \in 1..Len(companies_of(data)) :
                        HasDataRow(k,
                            CellsOf(csv_output["indicators_detailed.csv"][n])[8])
        /\ "esg_data_pivot.csv" \in DOMAIN csv_output
              => \A category \in AllCategories :
                    Contains(csv_output["esg_data_pivot.csv"][1],
                             "," \o category \o "_")
                        => \E k \in 1..Len(companies_of(data)) :
                              HasDataRow(k, category)
        /\ "companies_summary.csv" \in DOMAIN csv_output
              => \A category \in AllCategories :
                    (\E k \in 1..Len(companies_of(data)) :
                        /\ category \in DOMAIN CategoriesOf(k)
                        /\ CategoriesOf(k)[category] # None
                        /\ "row_count" \in DOMAIN CategoriesOf(k)[category])
                    => Contains(csv_output["companies_summary.csv"][1],
                                "," \o category \o "_indicators_count")

\* the category projection has run on a Dataset whose only entity has a
\* category entry with an empty data list
C16_Witness ==
    /\ data # None
    /\ converted["category"] >= 1
    /\ Len(companies_of(data)) = 1
    /\ HasDataList(1, endpoints[1])
    /\ ~HasDataRow(1, endpoints[1])
    /\ (endpoints[1] \o ".csv") \in DOMAIN csv_output

RECURSIVE Flatten(_)
\* the concatenation of a sequence of sequences
Flatten(ss) == IF ss = <<>> THEN <<>> ELSE Head(ss) \o Flatten(Tail(ss))

\* the (entity, category, data row) triples of the loaded Dataset, in the
\* order of the Dataset
Triples ==
    Flatten([k \in 1..Len(companies_of(data)) |->
        Flatten([c \in 1..Len(category_order) |->
            IF HasDataList(k, category_order[c])
            THEN [r \in 1..Len(CategoriesOf(k)[category_order[c]].data) |->
                     <<k, category_order[c], r>>]
            ELSE <<>>])])

\* the text of field f of the JSON object d in a written file
TextOf(d, f) == IF f \in DOMAIN d /\ d[f] # NoneStr THEN d[f] ELSE ""

\* the cells a triple has in a category table: identity, indicator, unit,
\* year values, metadata
TripleCells(t) ==
    LET entity == companies_of(data)[t[1]]
        result == CategoriesOf(t[1])[t[2]]
        row == result.data[t[3]]
        metadata == record_get(result, "metadata", EmptyDict)
    IN  << TextOf(entity.company, "name"), TextOf(entity.company, "isin"),
           TextOf(entity.company, "mic"), TextOf(entity.company, "symbol"),
           TextOf(entity.company, "market"), TextOf(entity.company, "currency"),
           TextOf(entity, "scrape_timestamp"),
           TextOf(row, "Indicator"), TextOf(row, "Unit"), TextOf(row, "2024"),
           TextOf(row, "2023"), TextOf(row, "2022"),
           TextOf(metadata, "source"), TextOf(metadata, "last_update") >>

\* the data lines of a written file, as cells
DataCells(file) ==
    [n \in 1..(Len(csv_output[file]) - 1) |-> CellsOf(csv_output[file][n + 1])]

\* C17: the detailed projection has one row per (entity, category, data
\* row) triple, in dataset order, with the identity, the category and the
\* row's fields; the table of a category holds, in order, the detailed rows
\* of that category without the category column, and the category tables
\* together have as many rows as the detailed projection.
C17_CategoryPartition ==
    data # None =>
        /\ "indicators_detailed.csv" \in DOMAIN csv_output
              => DataCells("indicators_detailed.csv") =
                    [i \in 1..Len(Triples) |->
                        SubSeq(TripleCells(Triples[i]), 1, 7)
                        \o <<Triples[i][2]>>
                        \o SubSeq(TripleCells(Triples[i]), 8, 14)]
        /\ converted["category"] >= 1
              => /\ \A i \in 1..Len(Triples) :
                        (Triples[i][2] \o ".csv") \in DOMAIN csv_output
                 /\ \A category \in AllCategories :
                        (category \o ".csv") \in DOMAIN csv_output
                            => DataCells(category \o ".csv") =
                                  [i \in 1..Len(SelectSeq(Triples,
                                          LAMBDA t : t[2] = category)) |->
                                      TripleCells(SelectSeq(Triples,
                                          LAMBDA t : t[2] = category)[i])]

\* both projections have run on a Dataset of two entities with rows in two
\* categories, one category having two rows
C17_Witness ==
    /\ data # None
    /\ converted["detailed"] >= 1
    /\ converted["category"] >= 1
    /\ Len(companies_of(data)) = 2
    /\ Len(Triples) = 4
    /\ Len(csv_output["indicators_detailed.csv"]) = 5
    /\ Len(csv_output[endpoints[1] \o ".csv"]) = 4
    /\ Len(csv_output["esg_ratings.csv"]) = 2

\* the position of a column in the header of a written file, 0 when absent
ColumnOf(file, column) ==
    LET header == CellsOf(csv_output[file][1])
    IN  IF \E i \in 1..Len(header) : header[i] = column
        THEN CHOOSE i \in 1..Len(header) : header[i] = column
        ELSE 0

\* the cell of entity k's row of a written file under a column
CellUnder(file, k, column) ==
    CellsOf(csv_output[file][k + 1])[ColumnOf(file, column)]

\* C19: the pivot row of an entity holds, for every (category, data row)
\* pair of the entity, the row's 2024, 2023 and 2022 values and its unit
\* under the four columns of the row's prefix, also when two rows of the
\* entity have indicator texts that give the same prefix.
C19_NoPivotRowLost ==
    (data # None /\ "esg_data_pivot.csv" \in DOMAIN csv_output) =>
        \A i \in 1..Len(Triples) :
            LET row == CategoriesOf(Triples[i][1])[Triples[i][2]].data[Triples[i][3]]
                prefix == col_prefix(Triples[i][2], TextOf(row, "Indicator"))
            IN  /\ \A column \in {prefix \o "_2024", prefix \o "_2023",
                                  prefix \o "_2022", prefix \o "_unit"} :
                      ColumnOf("esg_data_pivot.csv", column) # 0
                /\ CellUnder("esg_data_pivot.csv", Triples[i][1],
                             prefix \o "_2024") = TextOf(row, "2024")
                /\ CellUnder("esg_data_pivot.csv", Triples[i][1],
                             prefix \o "_2023") = TextOf(row, "2023")
                /\ CellUnder("esg_data_pivot.csv", Triples[i][1],
                             prefix \o "_2022") = TextOf(row, "2022")
                /\ CellUnder("esg_data_pivot.csv", Triples[i][1],
                             prefix \o "_unit") = TextOf(row, "Unit")

\* the pivot projection has run on an entity with two rows of one prefix
C19_Witness ==
    /\ data # None
    /\ "esg_data_pivot.csv" \in DOMAIN csv_output
    /\ Len(companies_of(data)) = 1
    /\ \E i, j \in 1..Len(Triples) :
          /\ i < j
          /\ Triples[i][2] = Triples[j][2]
          /\ TextOf(CategoriesOf(1)[Triples[i][2]].data[Triples[i][3]], "Indicator")
                = "GHG Emissions (Scope 1)"
          /\ TextOf(CategoriesOf(1)[Triples[j][2]].data[Triples[j][3]], "Indicator")
                = "GHG Emissions Scope 1"
    /\ CellUnder("esg_data_pivot.csv", 1,
                 "esg_environmental_indicators_GHG_Emissions_Scope_1_2024") = "7"
====
